---- MODULE Spec2Model ----
(***************************************************************************)
(* Model of the fujin cost-propagation engine (src/solver_tools.py) and    *)
(* of the traveler set-up it consumes (src/env_setup.py).                  *)
(*                                                                         *)
(* Numbers.  The program computes in IEEE doubles; the model computes in   *)
(* integers of a fixed-point scale (tenths of a unit of force).  D_max     *)
(* is the sentinel of getCost2go; it is so large (about 1e23) that adding  *)
(* any work value to it returns D_max again (the work is far below half a  *)
(* unit in the last place), and fadd models exactly that absorption.       *)
(* Square roots are floor square roots at the fixed-point scale.           *)
(* Python version: the source is Python 2 (xrange, len(zip(...)), print    *)
(* statements), so list-comprehension variables leak into the enclosing    *)
(* function scope.                                                         *)
(***************************************************************************)
EXTENDS Integers, Sequences, FiniteSets, TLC

\* ------------------------------------------------------------------ bounds
\* rows of the occupancy grid
FullM == 4
\* columns of the occupancy grid
FullN == 4
\* largest iteration budget (outer sweeps) handed to getCost2go
MaxIterations == 2
\* largest number of obstacle cells in the grids handed to getNeighbors
MaxObstacles == 2

\* -------------------------------------------------------------- constants
obstacleFlag == 1
NumSamples == 10
WilliamsIterations == 100
D_max == 10000000

Cells(m, n) == (0 .. m - 1) \X (0 .. n - 1)

\* ------------------------------------------------------- grid connectivity
\* the eight base directions in the order getNeighbors tests them
BaseMoves ==
  << <<-1, 0, "^">>, <<1, 0, "v">>, <<0, -1, "<">>, <<0, 1, ">">>,
     <<-1, -1, "a">>, <<-1, 1, "b">>, <<1, -1, "c">>, <<1, 1, "d">> >>

\* the eight extended moves in the order getNeighbors tests them, each with
\* the three base flags its condition reads
ExtMoves ==
  << <<-2, -1, "m", "^", "a", "<">>, <<-2, 1, "n", "^", "b", ">">>,
     <<-1, -2, "o", "^", "a", "<">>, <<-1, 2, "p", "^", "b", ">">>,
     <<2, -1, "w", "v", "c", "<">>, <<2, 1, "x", "v", "d", ">">>,
     <<1, -2, "y", "v", "c", "<">>, <<1, 2, "z", "v", "d", ">">> >>

\* DestFree without the obstacle test
DestFree_NoObstacleTest(i, dr, dc, m, n, env) ==
  /\ i[1] + dr >= 0 /\ i[1] + dr < m
  /\ i[2] + dc >= 0 /\ i[2] + dc < n

\* the in-range test and the obstacle test of one destination
DestFree(i, dr, dc, m, n, env) ==
  /\ i[1] + dr >= 0 /\ i[1] + dr < m
  /\ i[2] + dc >= 0 /\ i[2] + dc < n
  /\ env[<<i[1] + dr, i[2] + dc>>] # obstacleFlag

\* upAllowed .. downrightAllowed, keyed by the move symbol
BaseAllowed(i, m, n, env) ==
  [s \in {"^", "v", "<", ">", "a", "b", "c", "d"} |->
     \E k \in 1 .. 8 : /\ BaseMoves[k][3] = s
                       /\ DestFree(i, BaseMoves[k][1], BaseMoves[k][2], m, n, env)]

\* ExtAllowed reading the straight flags only
ExtAllowed_NoDiagonal(i, e, m, n, env) ==
  LET allowed == BaseAllowed(i, m, n, env)
  IN  /\ allowed[e[4]] /\ allowed[e[6]]
      /\ DestFree(i, e[1], e[2], m, n, env)

ExtAllowed(i, e, m, n, env) ==
  LET allowed == BaseAllowed(i, m, n, env)
  IN  /\ allowed[e[4]] /\ allowed[e[5]] /\ allowed[e[6]]
      /\ DestFree(i, e[1], e[2], m, n, env)

Entry(i, mv) == <<i[1] + mv[1], i[2] + mv[2], mv[3]>>

RECURSIVE MapEntry(_, _)
MapEntry(i, moves) ==
  IF moves = << >> THEN << >>
  ELSE <<Entry(i, Head(moves))>> \o MapEntry(i, Tail(moves))

getNeighbors(i, m, n, env) ==
  MapEntry(i, SelectSeq(BaseMoves,
                LAMBDA b : DestFree(i, b[1], b[2], m, n, env)))
  \o MapEntry(i, SelectSeq(ExtMoves,
                LAMBDA e : ExtAllowed(i, e, m, n, env)))

\* ------------------------------------------------------------- arithmetic
Abs(x) == IF x < 0 THEN -x ELSE x

\* the part of a double that survives an addition with a multiple of D_max
Big(x) == IF Abs(x) >= D_max THEN x ELSE 0

\* double addition: a term below D_max in magnitude is absorbed by a term of
\* magnitude D_max or more
fadd(a, b) ==
  IF Abs(a) >= D_max \/ Abs(b) >= D_max THEN Big(a) + Big(b) ELSE a + b

\* integer division rounding toward zero
QuotTrunc(x, d) == IF x < 0 THEN -((-x) \div d) ELSE x \div d

RECURSIVE IsqrtIter(_, _, _)
IsqrtIter(x, lo, hi) ==
  IF lo = hi THEN lo
  ELSE LET mid == (lo + hi + 1) \div 2
       IN  IF mid * mid <= x THEN IsqrtIter(x, mid, hi)
           ELSE IsqrtIter(x, lo, mid - 1)

Max(a, b) == IF a > b THEN a ELSE b

\* cos of k * pi / 8, in thousandths
Cos1000 == <<1000, 924, 707, 383, 0, -383, -707, -924,
             -1000, -924, -707, -383, 0, 383, 707, 924>>

cos(dir) == Cos1000[(dir % 16) + 1]
sin(dir) == Cos1000[((dir + 12) % 16) + 1]

\* the list with the elements f[lo] .. f[hi], every element computed
RECURSIVE ListFrom(_, _, _)
ListFrom(f, lo, hi) ==
  IF lo > hi THEN << >>
  ELSE IF lo = hi THEN <<f[lo]>>
  ELSE LET mid == (lo + hi) \div 2
       IN  ListFrom(f, lo, mid) \o ListFrom(f, mid + 1, hi)

List(f) == ListFrom(f, 1, Len(f))

RECURSIVE SumSeq(_)
SumSeq(s) == IF s = << >> THEN 0 ELSE Head(s) + SumSeq(Tail(s))

\* --------------------------------------------------------------- traveler
\* heading of each move symbol, in units of pi / 8
action2radians ==
  [s \in {">", "b", "^", "a", "<", "c", "v", "d",
          "m", "n", "o", "p", "w", "x", "y", "z", "*", "-", " "} |->
     CASE s = ">" -> 0  [] s = "b" -> 2  [] s = "^" -> 4  [] s = "a" -> 6
       [] s = "<" -> 8  [] s = "c" -> 10 [] s = "v" -> 12 [] s = "d" -> 14
       [] s = "m" -> 5  [] s = "n" -> 3  [] s = "o" -> 7  [] s = "p" -> 1
       [] s = "w" -> 11 [] s = "x" -> 13 [] s = "y" -> 9  [] s = "z" -> 15
       [] OTHER -> 0]

travelTypes == <<"4way", "8way", "16way">>

actionspaceOf(travelType) ==
  CASE travelType = travelTypes[1] -> <<"^", "v", "<", ">">>
    [] travelType = travelTypes[2] -> <<"^", "v", "<", ">", "a", "b", "c", "d">>
    [] travelType = travelTypes[3] ->
         <<"^", "v", "<", ">", "a", "b", "c", "d",
           "m", "n", "o", "p", "w", "x", "y", "z">>

getTraveler(start, target, speed_cps, travelType) ==
  [start |-> start, target |-> target,
   actionspace |-> actionspaceOf(travelType),
   speed_cps |-> speed_cps]

\* ------------------------------------------------ force and adversary model
\* numpy.linspace(start, stop, NumSamples)
linspace(start, stop) ==
  List([s \in 1 .. NumSamples |->
          start + ((s - 1) * (stop - start)) \div (NumSamples - 1)])

\* the pairs of an element of `first` and an element of `rest`, the element of
\* `rest` varying fastest
Cross(first, rest) ==
  List([idx \in 1 .. Len(first) * Len(rest) |->
          <<first[((idx - 1) \div Len(rest)) + 1]>> \o rest[((idx - 1) % Len(rest)) + 1]])

\* itertools.product(*ranges) as a list: the last range varies fastest
RECURSIVE product(_)
product(ranges) ==
  IF ranges = << >> THEN << << >> >>
  ELSE Cross(Head(ranges), product(Tail(ranges)))

RECURSIVE Pow(_, _)
Pow(b, e) == IF e = 0 THEN 1 ELSE b * Pow(b, e - 1)

\* uranges or vranges: per source, the samples around the cell's value
ranges(grids, row, col, errors) ==
  List([g \in 1 .. Len(grids) |->
          linspace(grids[g][<<row, col>>] - errors[g],
                   grids[g][<<row, col>>] + errors[g])])

\* the dict getWorldActionsForCell returns: both keys hold uactionspace
world_actionspace(uactionspace, vactionspace, numActions) ==
  [uactions |-> uactionspace, vactions |-> uactionspace, num |-> numActions]

getWorldActionsForCell(row, col, ugrids, vgrids, errors) ==
  world_actionspace(product(ranges(ugrids, row, col, errors)),
                    product(ranges(vgrids, row, col, errors)),
                    Pow(NumSamples, Len(ugrids)))

getVectorSum(us, vs, weights) ==
  <<SumSeq([i \in 1 .. Len(us) |-> weights[i] * us[i]]),
    SumSeq([i \in 1 .. Len(us) |-> weights[i] * vs[i]])>>

getVectorDiff(us, vs, weights) ==
  <<-SumSeq([i \in 1 .. Len(us) |-> weights[i] * us[i]]),
    -SumSeq([i \in 1 .. Len(us) |-> weights[i] * vs[i]])>>

magdir2uv(mag, dir) ==
  <<QuotTrunc(mag * cos(dir), 1000), QuotTrunc(mag * sin(dir), 1000)>>

\* the magnitude sqrt(u * u + v * v), rounded down; it lies between the larger
\* of |u|, |v| and their sum.  The direction uv2magdir also returns is never
\* read
uv2magdir(u, v) ==
  IsqrtIter(u * u + v * v, Max(Abs(u), Abs(v)), Abs(u) + Abs(v))

\* --------------------------------------------------------- outcome function
\* the offsets of getOutcome with the offset of 'x' in the branch of 'z'
OutcomeOffset_ZAsX ==
  [s \in {"^", "v", "<", ">", "a", "b", "c", "d",
          "m", "n", "o", "p", "w", "x", "y", "z"} |->
     CASE s = "^" -> <<-1, 0>>  [] s = "v" -> <<1, 0>>
       [] s = "<" -> <<0, -1>>  [] s = ">" -> <<0, 1>>
       [] s = "a" -> <<-1, -1>> [] s = "b" -> <<-1, 1>>
       [] s = "c" -> <<1, -1>>  [] s = "d" -> <<1, 1>>
       [] s = "m" -> <<-2, -1>> [] s = "n" -> <<-2, 1>>
       [] s = "o" -> <<-1, -2>> [] s = "p" -> <<-1, 2>>
       [] s = "w" -> <<2, -1>>  [] s = "x" -> <<2, 1>>
       [] s = "y" -> <<1, -2>>  [] s = "z" -> <<2, 1>>]

\* the cell offset getOutcome adds to (row, col) for each move symbol
OutcomeOffset ==
  [s \in {"^", "v", "<", ">", "a", "b", "c", "d",
          "m", "n", "o", "p", "w", "x", "y", "z"} |->
     CASE s = "^" -> <<-1, 0>>  [] s = "v" -> <<1, 0>>
       [] s = "<" -> <<0, -1>>  [] s = ">" -> <<0, 1>>
       [] s = "a" -> <<-1, -1>> [] s = "b" -> <<-1, 1>>
       [] s = "c" -> <<1, -1>>  [] s = "d" -> <<1, 1>>
       [] s = "m" -> <<-2, -1>> [] s = "n" -> <<-2, 1>>
       [] s = "o" -> <<-1, -2>> [] s = "p" -> <<-1, 2>>
       [] s = "w" -> <<2, -1>>  [] s = "x" -> <<2, 1>>
       [] s = "y" -> <<1, -2>>  [] s = "z" -> <<1, 2>>]

\* what a read that raises IndexError yields
IndexError == -1

\* grid[r][c] of a numpy array of m rows and n columns: a negative index
\* counts from the end, an index past the end raises IndexError
At(grid, r, c, m, n) ==
  IF r >= m \/ c >= n \/ r < -m \/ c < -n THEN IndexError
  ELSE grid[<<r % m, c % n>>]

\* the magnitude of the applied force: the difference getVectorDiff makes of
\* the world vector w and the traveler vector t
applied(w, t) ==
  uv2magdir(getVectorDiff(<<w[1], t[1]>>, <<w[2], t[2]>>, <<1, 1>>)[1],
            getVectorDiff(<<w[1], t[1]>>, <<w[2], t[2]>>, <<1, 1>>)[2])

work_of(move, us, vs, weights, traveler) ==
  applied(getVectorSum(us, vs, weights),
          magdir2uv(traveler.speed_cps, action2radians[move]))

\* <<workc, work>> from the work and the cost2go read at the destination
workc_of(work, dest) ==
  IF dest = IndexError THEN <<IndexError, work>>
  ELSE <<fadd(work, dest), work>>

\* returns <<workc, work>>
getOutcome(move, us, vs, weights, traveler, cost2go, row, col, m, n) ==
  workc_of(work_of(move, us, vs, weights, traveler),
           At(cost2go, row + OutcomeOffset[move][1], col + OutcomeOffset[move][2],
              m, n))

\* ---------------------------------------------------- payoff matrix builder
Bmove(B) == {B[x][3] : x \in 1 .. Len(B)}

\* the entry of the row of a move that is not valid, left at its initial 0
InvalidEntry_LeftZero == <<0, 0>>

\* the entry of the row of a move that is not valid
InvalidEntry == <<D_max, D_max>>

\* the (game, game_work) entries of every row r and column c
GameEntries(row, col, traveler, world, valid, weights, m, n, cost2go) ==
  List([r \in 1 .. Len(traveler.actionspace) |->
     List([c \in 1 .. world.num |->
        IF traveler.actionspace[r] \in valid
        THEN getOutcome(traveler.actionspace[r], world.uactions[c],
                        world.vactions[c], weights, traveler, cost2go,
                        row, col, m, n)
        ELSE InvalidEntry])])

\* the two matrices of those entries
Matrices(both) ==
  [game |-> List([r \in DOMAIN both |->
                    List([c \in DOMAIN both[r] |-> both[r][c][1]])]),
   game_work |-> List([r \in DOMAIN both |->
                         List([c \in DOMAIN both[r] |-> both[r][c][2]])])]

getGameForCell(row, col, traveler, ugrids, vgrids, errors, weights, env, m, n, cost2go) ==
  Matrices(GameEntries(row, col, traveler,
                       getWorldActionsForCell(row, col, ugrids, vgrids, errors),
                       Bmove(getNeighbors(<<row, col>>, m, n, env)),
                       weights, m, n, cost2go))

\* ------------------------------------------------------ zero-sum game solver
RECURSIVE FirstMinFrom(_, _, _)
FirstMinFrom(s, x, best) ==
  IF x > Len(s) THEN best
  ELSE FirstMinFrom(s, x + 1, IF s[x] < s[best] THEN x ELSE best)

\* min(zip(values, positions))[1]: the first position of the least value
FirstMin(s) == FirstMinFrom(s, 2, 1)

RECURSIVE FirstMaxFrom(_, _, _)
FirstMaxFrom(s, x, best) ==
  IF x > Len(s) THEN best
  ELSE FirstMaxFrom(s, x + 1, IF s[x] > s[best] THEN x ELSE best)

\* -max(zip(values, negated positions))[1] and numpy.argmax: the first
\* position of the greatest value
FirstMax(s) == FirstMaxFrom(s, 2, 1)

\* the end of a pass of the loop of solve_williams: the counts and sums
\* after the column player chose acol, and the row player's next choice
RowTurn(st, col_cum_payoff, acol, row_cum_payoff) ==
  [rowcnt |-> [st.rowcnt EXCEPT ![st.active] = @ + 1],
   colcnt |-> [st.colcnt EXCEPT ![acol] = @ + 1],
   row_cum_payoff |-> row_cum_payoff, col_cum_payoff |-> col_cum_payoff,
   active |-> FirstMax(row_cum_payoff)]

\* the column player's choice acol and the row sums it leads to
ColumnTurn(payoff, st, col_cum_payoff, acol) ==
  RowTurn(st, col_cum_payoff, acol,
          List([r \in DOMAIN st.row_cum_payoff |->
                  fadd(payoff[r][acol], st.row_cum_payoff[r])]))

\* the column sums after the row player's choice st.active
ColumnSums(payoff, st, col_cum_payoff) ==
  ColumnTurn(payoff, st, col_cum_payoff, FirstMin(col_cum_payoff))

\* one pass of the loop body of solve_williams; rows and columns are numbered
\* from 1, payoff is the negated cost matrix
WilliamsStep(payoff, st) ==
  ColumnSums(payoff, st,
             List([c \in DOMAIN st.col_cum_payoff |->
                     fadd(payoff[st.active][c], st.col_cum_payoff[c])]))

\* the loop of solve_williams: `left` passes from state st, split in halves
RECURSIVE WilliamsLoop(_, _, _)
WilliamsLoop(payoff, st, left) ==
  IF left = 0 THEN st
  ELSE IF left = 1 THEN WilliamsStep(payoff, st)
  ELSE LET half == WilliamsLoop(payoff, st, left \div 2)
       IN  IF half.active >= 1
           THEN WilliamsLoop(payoff, half, left - (left \div 2))
           ELSE st

\* the loop of solve_williams from its initial counts and sums
WilliamsStart(payoff, iters) ==
  WilliamsLoop(payoff,
    [rowcnt |-> List([r \in 1 .. Len(payoff) |-> 0]),
     colcnt |-> List([c \in 1 .. Len(payoff[1]) |-> 0]),
     row_cum_payoff |-> List([r \in 1 .. Len(payoff) |-> 0]),
     col_cum_payoff |-> List([c \in 1 .. Len(payoff[1]) |-> 0]),
     active |-> 1],
    iters)

\* the state of solve_williams after its loop, run on (-1) * payoff_matrix
WilliamsRun(payoff_matrix, iters) ==
  WilliamsStart(List([r \in DOMAIN payoff_matrix |->
                        List([c \in DOMAIN payoff_matrix[r] |->
                                -payoff_matrix[r][c]])]),
                iters)

\* the returned arrays with the play counts divided by one more than the
\* passes made
oddments_OffByOne(st, iters) ==
  [y |-> [num |-> st.rowcnt, den |-> iters + 1],
   z |-> [num |-> st.colcnt, den |-> iters + 1]]

\* the returned arrays rowcnt / iterations and colcnt / iterations: a mixed
\* strategy is kept as its play counts over the number of plays, entry x of
\* the array being num[x] / den
oddments(st, iters) ==
  [y |-> [num |-> st.rowcnt, den |-> iters],
   z |-> [num |-> st.colcnt, den |-> iters]]

solve_williams(payoff_matrix, iters) ==
  oddments(WilliamsRun(payoff_matrix, iters), iters)

\* value_of_game, which solve_williams computes and does not return, as a
\* numerator over 2 * iters (payoff convention: the negated costs)
value_of_game2(row_cum_payoff, col_cum_payoff) ==
  fadd(row_cum_payoff[FirstMax(row_cum_payoff)],
       col_cum_payoff[FirstMin(col_cum_payoff)])

\* the tuple solveGame returns
solution_of(game, yz, i, j) ==
  [y |-> yz.y, z |-> yz.z, i |-> i, j |-> j, v |-> game[i][j]]

\* the pure policy taking the least played row as the traveler's move
pure_policy_ArgMin(game, yz) ==
  solution_of(game, yz, FirstMin(yz.y.num), FirstMax(yz.z.num))

\* the conversion to a pure policy: the most played row and column
pure_policy(game, yz) ==
  solution_of(game, yz, FirstMax(yz.y.num), FirstMax(yz.z.num))

\* the values of solveGame's argument `method`
Methods == 0 .. 2

\* the solver solveGame dispatches to for a value of `method`
solver_of(method) ==
  CASE method = 0 -> "solve_williams"
    [] method = 1 -> "solve_gambit"
    [] method = 2 -> "solve_nashpy"

\* solveGame on the branch method = 0, the only one whose solver is code of
\* this repository
solveGame(game) == pure_policy(game, solve_williams(game, WilliamsIterations))

\* ------------------------------------------------------------------- state
VARIABLES
  occgrid,       \* input: occupancy grid, cell -> 0 (free) or 1 (obstacle)
  traveler,      \* input: the traveler dict of getTraveler
  bounds,        \* input: [upperleft, lowerright]
  ugrids, vgrids, egrids, wgrids,   \* input: one grid per force source
  iterations,    \* input: the sweep budget
  method,        \* input: the solver asked of getCost2go
  cost2go, action2go,               \* the grids getCost2go fills
  visitQueue, visitHistory,         \* the worklist and the visited set of a sweep
  k,             \* sweeps completed so far
  pc,            \* position in getCost2go, or in the call of a single function
  popped,        \* history: the last popped cell and the state it was popped in
  sweepCosts,    \* history: cost2go at the end of each completed sweep
  call, ret      \* the arguments and the result of a single function call

vars == <<occgrid, traveler, bounds, ugrids, vgrids, egrids, wgrids, iterations,
          method, cost2go, action2go, visitQueue, visitHistory, k, pc, popped,
          sweepCosts, call, ret>>

inputs == <<occgrid, traveler, bounds, ugrids, vgrids, egrids, wgrids, iterations,
            method>>

full_m == FullM
full_n == FullN
AllCells == Cells(full_m, full_n)

\* the values `row` and `col` hold inside f_work: the loop variables of the
\* list comprehensions that build action2go, left at their last values
LeakedRow == full_m - 1
LeakedCol == full_n - 1

f_work_cell(i) == <<LeakedRow, LeakedCol>>

\* the cell's game and its solution, as f_work computes them
f_work_errors(i) == [g \in DOMAIN egrids |-> egrids[g][f_work_cell(i)]]

f_work_weights(i) == [g \in DOMAIN wgrids |-> wgrids[g][f_work_cell(i)]]

f_work_game(i, c2g) ==
  getGameForCell(i[1], i[2], traveler, ugrids, vgrids, f_work_errors(i),
                 f_work_weights(i), occgrid, full_m, full_n, c2g)

\* the pair f_work returns: solution[4] and the move of row solution[2]
f_work_return(solution) ==
  [c |-> solution.v, b |-> traveler.actionspace[solution.i]]

\* the `method` getNewCost hands to f_work, and f_work to solveGame
f_work_method == 0

f_work(i, c2g) == f_work_return(solveGame(f_work_game(i, c2g).game))

\* the cells the "surrounded by D_max" condition reads, in evaluation order
SurroundReads ==
  << <<-1, 0>>, <<-1, -1>>, <<-1, 0>>, <<-1, 1>>,
     <<0, -1>>, <<1, -1>>, <<0, 1>>, <<1, 1>> >>

\* the short-circuit evaluation of that condition: "yes", "no" or "fault"
RECURSIVE SurroundedFrom(_, _, _)
SurroundedFrom(i, c2g, x) ==
  IF x > Len(SurroundReads) THEN "yes"
  ELSE LET v == At(c2g, i[1] + SurroundReads[x][1], i[2] + SurroundReads[x][2],
                   full_m, full_n)
       IN  IF v = IndexError THEN "fault"
           ELSE IF v = D_max THEN SurroundedFrom(i, c2g, x + 1)
           ELSE "no"

Surrounded(i, c2g) == SurroundedFrom(i, c2g, 1)

TargetResult == [cost |-> 0, action |-> "*", how |-> "target"]

ObstacleResult == [cost |-> D_max, action |-> " ", how |-> "obstacle"]

\* the pruned branch keeping the action getNewCost starts with
PrunedResult_DefaultAction == [cost |-> D_max, action |-> " ", how |-> "pruned"]

PrunedResult == [cost |-> D_max, action |-> "-", how |-> "pruned"]

\* getNewCost's test of the value, letting a value of D_max through
GameResult_AboveDmax(cb) ==
  IF cb.c > D_max THEN [cost |-> D_max, action |-> "-", how |-> "game"]
  ELSE [cost |-> cb.c, action |-> cb.b, how |-> "game"]

\* the branch that calculates the cost: cb is the pair (c, b) of f_work
GameResult(cb) ==
  IF cb.c >= D_max THEN [cost |-> D_max, action |-> "-", how |-> "game"]
  ELSE [cost |-> cb.c, action |-> cb.b, how |-> "game"]

\* getNewCost testing for an obstacle before it tests for the target
getNewCost_ObstacleFirst(i, G, c2g) ==
  IF occgrid[i] = 1 THEN ObstacleResult
  ELSE IF i = G THEN TargetResult
  ELSE LET s == Surrounded(i, c2g)
       IN  IF s = "fault" THEN [cost |-> IndexError, action |-> "-", how |-> "fault"]
           ELSE IF s = "yes" THEN PrunedResult
           ELSE GameResult(f_work(i, c2g))

\* getNewCost: the new cost and action of cell i, or a fault
getNewCost(i, G, c2g) ==
  IF i = G THEN TargetResult
  ELSE IF occgrid[i] = 1 THEN ObstacleResult
  ELSE LET s == Surrounded(i, c2g)
       IN  IF s = "fault" THEN [cost |-> IndexError, action |-> "-", how |-> "fault"]
           ELSE IF s = "yes" THEN PrunedResult
           ELSE GameResult(f_work(i, c2g))

InBounds(b) ==
  /\ b[1] > bounds.upperleft[1] /\ b[1] < bounds.lowerright[1]
  /\ b[2] > bounds.upperleft[2] /\ b[2] < bounds.lowerright[2]

\* the loop over the neighbours B of the popped cell
RECURSIVE Enqueue(_, _, _)
Enqueue(queue, hist, B) ==
  IF B = << >> THEN [queue |-> queue, hist |-> hist]
  ELSE LET b == <<Head(B)[1], Head(B)[2]>>
       IN  IF InBounds(b) /\ b \notin hist
           THEN Enqueue(Append(queue, b), hist \cup {b}, Tail(B))
           ELSE Enqueue(queue, hist, Tail(B))

\* ------------------------------------------------------------------ inputs
\* a grid whose value grows by slope per row and per column
Ramp(base, slope) == [c \in AllCells |-> base + slope * (c[1] + c[2])]

\* force fields: u, v, error and weight of the single source, each a (base,
\* slope) pair, at the fixed-point scale
ForceCases ==
  { [u |-> <<0, 0>>,  v |-> <<0, 0>>,  e |-> <<0, 0>>,  w |-> <<0, 0>>],
    [u |-> <<0, 0>>,  v |-> <<20, 0>>, e |-> <<45, 0>>, w |-> <<1, 0>>],
    [u |-> <<10, 3>>, v |-> <<0, -2>>, e |-> <<0, 9>>,  w |-> <<2, -1>>] }

\* occupancy, target and bounds: the obstacle cells, the target, and the
\* corners of the bounds
WholeGrid == [upperleft |-> <<0, 0>>, lowerright |-> <<full_m, full_n>>]
Inner == [upperleft |-> <<0, 0>>, lowerright |-> <<full_m - 1, full_n - 1>>]
Lower == [upperleft |-> <<1, 1>>, lowerright |-> <<full_m, full_n>>]

Scenarios ==
  { [obs |-> {},                   target |-> <<1, 1>>, bounds |-> Inner],
    [obs |-> {<<1, 2>>},           target |-> <<2, 2>>, bounds |-> Inner],
    [obs |-> {<<2, 2>>},           target |-> <<3, 1>>, bounds |-> WholeGrid],
    [obs |-> {},                   target |-> <<0, 2>>, bounds |-> WholeGrid],
    [obs |-> {<<2, 2>>},           target |-> <<2, 2>>, bounds |-> Inner],
    [obs |-> {<<1, 2>>, <<2, 1>>}, target |-> <<1, 1>>, bounds |-> Inner],
    [obs |-> {},                   target |-> <<3, 1>>, bounds |-> WholeGrid],
    [obs |-> {<<3, 3>>},           target |-> <<1, 1>>, bounds |-> Lower] }

\* the check parseOptions makes of a position against the bounds
InsideBounds(p, b) ==
  ~ (\/ p[1] < b.upperleft[1] \/ p[1] >= b.lowerright[1]
     \/ p[2] < b.upperleft[2] \/ p[2] >= b.lowerright[2])

\* the default speed of parseOptions, 10 cells per second, in tenths
speed == 100

NoCall == [fn |-> "getCost2go"]

\* a target in the first column of the bounds in a shearing field with a
\* large error: u = 8.0 + 3.0 (r + c), v = -4.0 (r + c), error 10.0, weight 1
ShearedRun ==
  [sc |-> [obs |-> {}, target |-> <<2, 0>>, bounds |-> Inner],
   tt |-> 1,
   f  |-> [u |-> <<80, 30>>, v |-> <<0, -40>>, e |-> <<100, 0>>, w |-> <<1, 0>>]]

\* the runs of getCost2go: each scenario with each travel type and each
\* force field, and the sheared run
RunCases ==
  {[sc |-> sc, tt |-> tt, f |-> f] :
     sc \in Scenarios, tt \in 1 .. 3, f \in ForceCases} \cup {ShearedRun}

\* the solvers asked for: each of them in the runs of a single sweep, the
\* default one in the longer runs
MethodsFor(it) == IF it = 1 THEN Methods ELSE {0}

\* ---------------------------------------------------------------- getCost2go
Init ==
  /\ \E rc \in RunCases, it \in 1 .. MaxIterations :
       /\ InsideBounds(rc.sc.target, rc.sc.bounds)
       /\ occgrid = [c \in AllCells |-> IF c \in rc.sc.obs THEN 1 ELSE 0]
       /\ traveler = getTraveler(rc.sc.target, rc.sc.target, speed,
                                 travelTypes[rc.tt])
       /\ bounds = rc.sc.bounds
       /\ ugrids = <<Ramp(rc.f.u[1], rc.f.u[2])>>
       /\ vgrids = <<Ramp(rc.f.v[1], rc.f.v[2])>>
       /\ egrids = <<Ramp(rc.f.e[1], rc.f.e[2])>>
       /\ wgrids = <<Ramp(rc.f.w[1], rc.f.w[2])>>
       /\ iterations = it
       /\ method \in MethodsFor(it)
  /\ cost2go = [c \in AllCells |-> D_max]
  /\ action2go = [c \in AllCells |-> "-"]
  /\ visitQueue = << >>
  /\ visitHistory = {}
  /\ k = 0
  /\ pc = "for"
  /\ popped = << >>
  /\ sweepCosts = << >>
  /\ call = NoCall
  /\ ret = << >>

\* the top of the for loop: a new worklist holding the target
StartSweep ==
  /\ pc = "for" /\ k < iterations
  /\ visitQueue' = <<traveler.target>>
  /\ visitHistory' = {}
  /\ pc' = "while"
  /\ UNCHANGED <<inputs, cost2go, action2go, k, popped, sweepCosts, call, ret>>

\* history: the cells popped in this sweep before the pass now made; the
\* visited set is empty only in the pass that pops the seed of a sweep
poppedEarlier ==
  IF visitHistory = {} \/ popped = << >> THEN {}
  ELSE popped[1].earlier \cup {popped[1].cell}

\* history: the pass now made, on cell i with the result `new` of getNewCost
poppedRecord(i, new) ==
  [cell |-> i, before |-> cost2go, how |-> new.how, queue |-> visitQueue,
   hist |-> visitHistory, earlier |-> poppedEarlier]

\* the assignment of getNewCost's result to cell i and the new worklist
Assign(i, new, enq) ==
  /\ new.how # "fault"
  /\ cost2go' = [cost2go EXCEPT ![i] = new.cost]
  /\ action2go' = [action2go EXCEPT ![i] = new.action]
  /\ visitQueue' = enq.queue
  /\ visitHistory' = enq.hist
  /\ popped' = <<poppedRecord(i, new)>>

\* one pass of the while loop
Pop ==
  /\ pc = "while" /\ visitQueue # << >>
  /\ Assign(Head(visitQueue),
            getNewCost(Head(visitQueue), traveler.target, cost2go),
            Enqueue(Tail(visitQueue), visitHistory,
                    getNeighbors(Head(visitQueue), full_m, full_n, occgrid)))
  /\ UNCHANGED <<inputs, k, pc, sweepCosts, call, ret>>

\* getNewCost raises IndexError on cell i
Raise(i, new) ==
  /\ new.how = "fault"
  /\ visitQueue' = Tail(visitQueue)
  /\ popped' = <<poppedRecord(i, new)>>

\* a pass of the while loop whose getNewCost raises IndexError: the run ends
PopFault ==
  /\ pc = "while" /\ visitQueue # << >>
  /\ Raise(Head(visitQueue),
           getNewCost(Head(visitQueue), traveler.target, cost2go))
  /\ pc' = "fault"
  /\ UNCHANGED <<inputs, cost2go, action2go, visitHistory, k, sweepCosts, call, ret>>

\* the worklist is empty: the sweep is over
EndSweep ==
  /\ pc = "while" /\ visitQueue = << >>
  /\ k' = k + 1
  /\ sweepCosts' = Append(sweepCosts, cost2go)
  /\ pc' = "for"
  /\ UNCHANGED <<inputs, cost2go, action2go, visitQueue, visitHistory, popped, call, ret>>

\* the budget is spent: the grids are returned
Return ==
  /\ pc = "for" /\ k >= iterations
  /\ pc' = "done"
  /\ UNCHANGED <<inputs, cost2go, action2go, visitQueue, visitHistory, k, popped,
                 sweepCosts, call, ret>>

Next == StartSweep \/ Pop \/ PopFault \/ EndSweep \/ Return

Spec == Init /\ [][Next]_vars

\* ------------------------------------------------- single function calls
\* the variables of getCost2go while a single function is called on its own
Parked ==
  /\ occgrid = << >> /\ traveler = << >> /\ bounds = << >>
  /\ ugrids = << >> /\ vgrids = << >> /\ egrids = << >> /\ wgrids = << >>
  /\ iterations = 0 /\ method = 0
  /\ cost2go = << >> /\ action2go = << >>
  /\ visitQueue = << >> /\ visitHistory = {}
  /\ k = 0 /\ popped = << >> /\ sweepCosts = << >>

run == <<inputs, cost2go, action2go, visitQueue, visitHistory, k, popped, sweepCosts>>

\* the sets of at most x cells of S
RECURSIVE UpTo(_, _)
UpTo(S, x) ==
  IF x = 0 THEN { {} }
  ELSE LET smaller == UpTo(S, x - 1)
       IN  smaller \cup { A \cup {c} : A \in smaller, c \in S }

NeighborDims == { <<3, 3>>, <<FullM, FullN>> }

InitNeighbors ==
  /\ Parked
  /\ pc = "call"
  /\ ret = << >>
  /\ \E d \in NeighborDims :
       \E obs \in UpTo(Cells(d[1], d[2]), MaxObstacles), i \in Cells(d[1], d[2]) :
          call = [fn |-> "getNeighbors", i |-> i, m |-> d[1], n |-> d[2],
                  env |-> [c \in Cells(d[1], d[2]) |->
                             IF c \in obs THEN obstacleFlag ELSE 0]]

CallNeighbors ==
  /\ pc = "call" /\ call.fn = "getNeighbors"
  /\ ret' = getNeighbors(call.i, call.m, call.n, call.env)
  /\ pc' = "return"
  /\ UNCHANGED <<run, call>>

SpecNeighbors == InitNeighbors /\ [][CallNeighbors]_vars

\* largest number of rows and of columns of a matrix handed to solveGame
MaxDim == 2

\* the entries of those matrices: costs and the sentinel
SolveEntries == {0, 7, D_max}

InitSolve ==
  /\ Parked
  /\ pc = "call"
  /\ ret = << >>
  /\ \E r \in 1 .. MaxDim, c \in 1 .. MaxDim :
       \E g \in [1 .. r -> [1 .. c -> SolveEntries]] :
          call = [fn |-> "solveGame",
                  game |-> List([x \in 1 .. r |-> List(g[x])])]

CallSolve ==
  /\ pc = "call" /\ call.fn = "solveGame"
  /\ ret' = solveGame(call.game)
  /\ pc' = "return"
  /\ UNCHANGED <<run, call>>

SpecSolve == InitSolve /\ [][CallSolve]_vars

\* the numbers of force sources getWorldActionsForCell is called with
SourceCounts == {1, 2}

\* per source: the u and v of cell (0, 0) and the error
SourceCases == {0, 10} \X {0, 20} \X {0, 9}

\* a u grid growing by 3 per row, a v grid growing by 5 per column
InitWorld ==
  /\ Parked
  /\ pc = "call"
  /\ ret = << >>
  /\ \E ns \in SourceCounts, i \in Cells(2, 2) :
       \E src \in [1 .. ns -> SourceCases] :
          call = [fn |-> "getWorldActionsForCell", row |-> i[1], col |-> i[2],
                  ugrids |-> List([g \in 1 .. ns |->
                               [c \in Cells(2, 2) |-> src[g][1] + 3 * c[1]]]),
                  vgrids |-> List([g \in 1 .. ns |->
                               [c \in Cells(2, 2) |-> src[g][2] + 5 * c[2]]]),
                  errors |-> List([g \in 1 .. ns |-> src[g][3]])]

CallWorld ==
  /\ pc = "call" /\ call.fn = "getWorldActionsForCell"
  /\ ret' = getWorldActionsForCell(call.row, call.col, call.ugrids, call.vgrids,
                                   call.errors)
  /\ pc' = "return"
  /\ UNCHANGED <<run, call>>

SpecWorld == InitWorld /\ [][CallWorld]_vars

\* ------------------------------------------------------------------ claims
ReturnedNeighbors == pc = "return" /\ call.fn = "getNeighbors"

RetMoves == {ret[x][3] : x \in 1 .. Len(ret)}

\* C6: for every in-bounds free cell i of an m x n grid, every (row, col,
\* symbol) returned by getNeighbors has 0 <= row < m, 0 <= col < n and
\* env[row][col] is not an obstacle.
C6_NeighborsValid ==
  (ReturnedNeighbors /\ call.env[call.i] # obstacleFlag) =>
     \A x \in 1 .. Len(ret) :
        /\ 0 <= ret[x][1] /\ ret[x][1] < call.m
        /\ 0 <= ret[x][2] /\ ret[x][2] < call.n
        /\ call.env[<<ret[x][1], ret[x][2]>>] # obstacleFlag

\* a free corner cell with an obstacle beside it, some neighbours returned
C6_Witness ==
  /\ ReturnedNeighbors
  /\ call.i = <<0, 0>> /\ call.env[<<0, 0>>] # obstacleFlag
  /\ call.env[<<0, 1>>] = obstacleFlag
  /\ Len(ret) >= 2

\* the straight move and the diagonal move that compose each extended move
Composing ==
  [s \in {"m", "n", "o", "p", "w", "x", "y", "z"} |->
     CASE s = "m" -> {"^", "a"} [] s = "n" -> {"^", "b"}
       [] s = "o" -> {"<", "a"} [] s = "p" -> {">", "b"}
       [] s = "w" -> {"v", "c"} [] s = "x" -> {"v", "d"}
       [] s = "y" -> {"<", "c"} [] s = "z" -> {">", "d"}]

KnightExample ==
  /\ call.m = 3 /\ call.n = 3 /\ call.i = <<1, 0>>
  /\ \A c \in Cells(3, 3) : (call.env[c] = obstacleFlag) <=> (c = <<0, 1>>)

\* C7: getNeighbors returns an extended move only if both the straight move
\* and the diagonal move that compose it are returned from the same cell; on
\* a 3x3 grid whose single obstacle is (0,1), from (1,0) the move 'p' is
\* excluded and the move 'z' is returned.
C7_KnightGating ==
  ReturnedNeighbors =>
     /\ \A s \in RetMoves \cap DOMAIN Composing : Composing[s] \subseteq RetMoves
     /\ KnightExample => ("p" \notin RetMoves /\ "z" \in RetMoves)

C7_Witness == ReturnedNeighbors /\ KnightExample /\ "z" \in RetMoves

\* a cell has been popped in the run of getCost2go
HasPopped == call = NoCall /\ popped # << >>

\* C1: after every completed sweep of getCost2go, whatever the iteration
\* budget, the occupancy grid, the forces and the bounds, cost2go[target] is
\* exactly 0 and action2go[target] is the target symbol '*'.
C1_TargetFixedPoint ==
  (call = NoCall /\ k >= 1) =>
     /\ cost2go[traveler.target] = 0
     /\ action2go[traveler.target] = "*"

\* two sweeps completed, the target re-evaluated in the second, and some
\* other cell holding a finite cost
C1_Witness ==
  /\ call = NoCall /\ k >= 2
  /\ cost2go[traveler.target] = 0 /\ action2go[traveler.target] = "*"
  /\ \E c \in AllCells : cost2go[c] > 0 /\ cost2go[c] < D_max

\* C2: for every cell, the cost2go value at the end of sweep k+1 is less than
\* or equal to its value at the end of sweep k.
C2_SweepMonotone ==
  call = NoCall =>
     \A x \in 1 .. Len(sweepCosts) - 1 : \A c \in AllCells :
        sweepCosts[x + 1][c] <= sweepCosts[x][c]

\* the cells among the 8 orthogonal and diagonal neighbours of i
Around(i) ==
  {c \in AllCells : c # i /\ Abs(c[1] - i[1]) <= 1 /\ Abs(c[2] - i[2]) <= 1}

\* the popped cell is neither target nor obstacle and every neighbour of it
\* held D_max when it was popped
PoppedEnclosed ==
  /\ HasPopped
  /\ popped[1].cell # traveler.target
  /\ occgrid[popped[1].cell] # 1
  /\ \A c \in Around(popped[1].cell) : popped[1].before[c] = D_max

\* C5: when getCost2go pops a cell that is neither the target nor an obstacle
\* while all its orthogonal and diagonal neighbours hold D_max, the cell has
\* cost D_max and the action '-' after that evaluation.
C5_EnclosedStaysDmax ==
  PoppedEnclosed =>
     /\ cost2go[popped[1].cell] = D_max
     /\ action2go[popped[1].cell] = "-"

\* an enclosed cell with all 8 neighbours in the grid went through the
\* pruning branch
C5_Witness ==
  /\ PoppedEnclosed
  /\ Cardinality(Around(popped[1].cell)) = 8
  /\ popped[1].how = "pruned"
  /\ cost2go[popped[1].cell] = D_max

\* C10: in every state of a getCost2go run, every obstacle cell other than the
\* target has cost2go D_max and carries the blocked symbol ' ', which is not
\* the symbol '-'.
C10_ObstaclesBlocked ==
  call = NoCall =>
     \A c \in AllCells :
        (occgrid[c] = 1 /\ c # traveler.target) =>
           cost2go[c] = D_max /\ action2go[c] = " "

\* the popped cell went through the game: not target, not obstacle, not pruned
GameEvaluated == HasPopped /\ popped[1].how = "game"

\* one force source, zero error everywhere and zero weight everywhere
Degenerate ==
  /\ call = NoCall
  /\ Len(ugrids) = 1
  /\ \A c \in AllCells : egrids[1][c] = 0 /\ wgrids[1][c] = 0

\* the entries getNeighbors returns from cell i whose move is one of the
\* traveler's moves
AllowedMoves(i) ==
  LET B == getNeighbors(i, full_m, full_n, occgrid)
  IN  {B[x] : x \in {y \in 1 .. Len(B) :
                       \E r \in DOMAIN traveler.actionspace :
                          traveler.actionspace[r] = B[y][3]}}

\* work(move) + cost2go[destination(move)] for the entry b out of cell i
EffortVia(i, b, c2g) ==
  fadd(work_of(b[3], <<ugrids[1][i]>>, <<vgrids[1][i]>>, <<wgrids[1][i]>>, traveler),
       c2g[<<b[1], b[2]>>])

\* the minimum of that over the allowed moves; D_max when there is none
MinEffort(i, c2g) ==
  LET E == {EffortVia(i, b, c2g) : b \in AllowedMoves(i)}
  IN  IF E = {} THEN D_max ELSE CHOOSE e \in E : \A f \in E : e <= f

\* the popped cell holds the minimum effort and a move attaining it
HoldsMinEffort ==
  LET i == popped[1].cell
      c2g == popped[1].before
  IN  /\ cost2go[i] = MinEffort(i, c2g)
      /\ \E b \in AllowedMoves(i) :
            b[3] = action2go[i] /\ EffortVia(i, b, c2g) = MinEffort(i, c2g)

\* C3 as stated: in the degenerate case every cell evaluated through the game
\* is assigned the minimum over the allowed moves of work(move) +
\* cost2go[destination(move)] and an action attaining it.
C3_Original == (Degenerate /\ GameEvaluated) => HoldsMinEffort

\* C3, amended: in the degenerate case every cell evaluated through the game
\* is assigned the minimum over the allowed moves of work(move) +
\* cost2go[destination(move)] and an action attaining it when that minimum is
\* below D_max, and D_max with the action '-' when it is not.
C3_MinEffortPolicy ==
  (Degenerate /\ GameEvaluated) =>
     IF MinEffort(popped[1].cell, popped[1].before) < D_max
     THEN HoldsMinEffort
     ELSE /\ cost2go[popped[1].cell] = D_max
          /\ action2go[popped[1].cell] = "-"

\* a degenerate game evaluation with two allowed moves of different finite
\* effort
C3_Witness ==
  /\ Degenerate /\ GameEvaluated
  /\ cost2go[popped[1].cell] < D_max
  /\ \E b1, b2 \in AllowedMoves(popped[1].cell) :
        /\ EffortVia(popped[1].cell, b1, popped[1].before)
             < EffortVia(popped[1].cell, b2, popped[1].before)
        /\ EffortVia(popped[1].cell, b2, popped[1].before) < D_max

\* the moves getNeighbors returns from the popped cell
PoppedValid == Bmove(getNeighbors(popped[1].cell, full_m, full_n, occgrid))

\* the matrices g of cell i, built on grid c2g against the adversary actions
\* `world`, have the shape and the entries C9 states
GameAsStated(i, c2g, g, world) ==
  /\ DOMAIN g.game = DOMAIN traveler.actionspace
  /\ DOMAIN g.game_work = DOMAIN traveler.actionspace
  /\ world.num = Len(world.uactions)
  /\ \A r \in DOMAIN traveler.actionspace :
       /\ DOMAIN g.game[r] = 1 .. world.num
       /\ DOMAIN g.game_work[r] = 1 .. world.num
       /\ \A c \in 1 .. world.num :
            IF traveler.actionspace[r] \in PoppedValid
            THEN <<g.game[r][c], g.game_work[r][c]>> =
                   getOutcome(traveler.actionspace[r], world.uactions[c],
                              world.vactions[c], f_work_weights(i), traveler,
                              c2g, i[1], i[2], full_m, full_n)
            ELSE g.game[r][c] = D_max /\ g.game_work[r][c] = D_max

\* C9: the cost and work matrices of getGameForCell have one row per move of
\* the traveler's action space and one column per adversary action; a row
\* whose move getNeighbors does not return is D_max in both matrices, and an
\* entry of a row whose move is returned is the (totalCost, work) pair of
\* getOutcome for that move and that column's adversary action.
C9_GameMatrices ==
  GameEvaluated =>
     GameAsStated(popped[1].cell, popped[1].before,
                  f_work_game(popped[1].cell, popped[1].before),
                  getWorldActionsForCell(popped[1].cell[1], popped[1].cell[2],
                                         ugrids, vgrids,
                                         f_work_errors(popped[1].cell)))

\* a game with a row of an invalid move and a row of a valid move, whose
\* value is finite
C9_Witness ==
  /\ GameEvaluated
  /\ cost2go[popped[1].cell] < D_max
  /\ \E r1, r2 \in DOMAIN traveler.actionspace :
        /\ traveler.actionspace[r1] \in PoppedValid
        /\ traveler.actionspace[r2] \notin PoppedValid

ReturnedSolve == pc = "return" /\ call.fn = "solveGame"

\* the entries of a matrix
EntriesOf(game) ==
  {game[r][c] : r \in DOMAIN game, c \in DOMAIN game[1]}

\* C4: for any payoff matrix passed to solveGame, the returned value lies
\* between the least and the greatest entry of the matrix, and the returned
\* row strategy and column strategy each sum to 1.
C4_ValueAndStrategies ==
  ReturnedSolve =>
     /\ \E lo, hi \in EntriesOf(call.game) : lo <= ret.v /\ ret.v <= hi
     /\ Len(ret.y.num) = Len(call.game)
     /\ Len(ret.z.num) = Len(call.game[1])
     /\ SumSeq(ret.y.num) = ret.y.den
     /\ SumSeq(ret.z.num) = ret.z.den

\* a matrix holding the sentinel and two different costs, solved with both
\* players mixing
C4_Witness ==
  /\ ReturnedSolve
  /\ EntriesOf(call.game) = SolveEntries
  /\ \E r1, r2 \in DOMAIN ret.y.num :
        r1 # r2 /\ ret.y.num[r1] > 1 /\ ret.y.num[r2] > 1
  /\ \E c1, c2 \in DOMAIN ret.z.num :
        c1 # c2 /\ ret.z.num[c1] > 0 /\ ret.z.num[c2] > 0
  /\ ret.v < D_max

ReturnedWorld == pc = "return" /\ call.fn = "getWorldActionsForCell"

\* C8: for every adversary action index x returned by getWorldActionsForCell
\* and every source g, uactions[x][g] lies in [u - e, u + e] and vactions[x][g]
\* lies in [v - e, v + e], for u, v the values of ugrids[g], vgrids[g] at the
\* cell and e = errors[g].
C8_WorldActionsPaired ==
  ReturnedWorld =>
     \A x \in 1 .. ret.num : \A g \in DOMAIN call.ugrids :
        LET u == call.ugrids[g][<<call.row, call.col>>]
            v == call.vgrids[g][<<call.row, call.col>>]
            e == call.errors[g]
        IN  /\ u - e <= ret.uactions[x][g] /\ ret.uactions[x][g] <= u + e
            /\ v - e <= ret.vactions[x][g] /\ ret.vactions[x][g] <= v + e

\* the cells (row, col) of the entries of a list of neighbours
CellsOf(B) == {<<B[x][1], B[x][2]>> : x \in 1 .. Len(B)}

\* the elements of a list
Elements(q) == {q[x] : x \in 1 .. Len(q)}

\* the connectivity neighbours of the popped cell
PoppedNeighbours == CellsOf(getNeighbors(popped[1].cell, full_m, full_n, occgrid))

\* the cells the last pass of the while loop added to the worklist
PoppedEnqueued == Elements(visitQueue) \ Elements(Tail(popped[1].queue))

\* C11: when getCost2go pops a cell, every connectivity neighbour of it that
\* lies in the half-open rectangle upperleft <= b < lowerright and was not yet
\* visited in this sweep is enqueued, and no neighbour outside that rectangle
\* is enqueued.
C11_EnqueueHalfOpen ==
  (HasPopped /\ popped[1].how # "fault") =>
     /\ \A b \in PoppedNeighbours :
          (InsideBounds(b, bounds) /\ b \notin popped[1].hist) =>
             b \in Elements(visitQueue)
     /\ \A b \in PoppedEnqueued : InsideBounds(b, bounds)

\* C12: for every validated input getCost2go executes exactly `iterations`
\* sweeps and then returns the grids; no cell evaluation raises a fault that
\* aborts the run.
C12_RunsAllSweeps ==
  call = NoCall =>
     /\ pc # "fault"
     /\ k <= iterations
     /\ pc = "done" => k = iterations

\* the values of the grids gs, one per source, at cell i
ValuesAt(gs, i) == [g \in DOMAIN gs |-> gs[g][i]]

\* C13: the game getCost2go builds for an evaluated cell (r, c) is the game of
\* the per-source error values egrids[g][r][c] and weight values
\* wgrids[g][r][c] of that same cell.
C13_OwnErrorsAndWeights ==
  GameEvaluated =>
     f_work_game(popped[1].cell, popped[1].before) =
        getGameForCell(popped[1].cell[1], popped[1].cell[2], traveler, ugrids,
                       vgrids, ValuesAt(egrids, popped[1].cell),
                       ValuesAt(wgrids, popped[1].cell), occgrid, full_m, full_n,
                       popped[1].before)

\* C14: the solver that solves the game of an evaluated cell is the one the
\* `method` argument of getCost2go selects (0 fictitious play, 1 gambit,
\* 2 nashpy), so that runs differing only in `method` use different solvers.
C14_MethodSelectsSolver ==
  GameEvaluated => solver_of(f_work_method) = solver_of(method)

\* what solveGame returns for the game of the popped cell
PoppedSolution == solveGame(f_work_game(popped[1].cell, popped[1].before).game)

\* x is the first position of the greatest value of s
IsFirstArgmax(s, x) ==
  /\ x \in 1 .. Len(s)
  /\ \A o \in 1 .. Len(s) : s[o] <= s[x]
  /\ \A o \in 1 .. x - 1 : s[o] < s[x]

\* the cell got the cost c and the move at position x of the actionspace
AssignedMove(i, c, x) ==
  cost2go[i] = c /\ action2go[i] = traveler.actionspace[x]

\* the popped cell was assigned as the solution sol requires
AssignedFrom(i, sol) ==
  IF sol.v >= D_max THEN cost2go[i] = D_max /\ action2go[i] = "-"
  ELSE \E x \in 1 .. Len(sol.y.num) :
          IsFirstArgmax(sol.y.num, x) /\ AssignedMove(i, sol.v, x)

\* C15: a cell evaluated through the game is assigned D_max and '-' when the
\* value solveGame returns is at least D_max, and otherwise that value and the
\* traveler's move at the first position where the row mixed strategy is
\* greatest.
C15_GameAssignment ==
  GameEvaluated => AssignedFrom(popped[1].cell, PoppedSolution)

\* the greatest value of s is reached at more than one position
Tied(s) ==
  \E x \in 1 .. Len(s) :
     IsFirstArgmax(s, x) /\ \E o \in x + 1 .. Len(s) : s[o] = s[x]

\* a game-evaluated cell with a value below D_max whose row strategy is tied
C15_Witness ==
  /\ GameEvaluated
  /\ cost2go[popped[1].cell] < D_max
  /\ Tied(PoppedSolution.y.num)

\* a game-evaluated cell whose value is D_max
C15_WitnessDmax == GameEvaluated /\ PoppedSolution.v >= D_max

\* C16: a popped cell that is neither the target nor an obstacle is pruned
\* only when all 8 of its orthogonal and diagonal neighbours hold D_max; when
\* one of them, the cell directly below included, holds less, its game is
\* built and solved.
C16_PrunedOnlyWhenEnclosed ==
  (HasPopped /\ popped[1].how = "pruned") =>
     \A b \in Around(popped[1].cell) : popped[1].before[b] = D_max

\* no cell is twice in the sequence q
NoRepeat(q) == \A x, o \in 1 .. Len(q) : q[x] = q[o] => x = o

\* C17: within a sweep the worklist starts with the target only, and no cell,
\* the target included, is enqueued, popped or evaluated a second time.
C17_OncePerSweep ==
  /\ (call = NoCall /\ pc = "while" /\ visitHistory = {} /\ visitQueue # << >>) =>
        visitQueue = <<traveler.target>>
  /\ (call = NoCall /\ pc = "while") => NoRepeat(visitQueue)
  /\ HasPopped =>
        /\ popped[1].cell \notin popped[1].earlier
        /\ popped[1].cell \notin Elements(visitQueue)
        /\ popped[1].earlier \cap Elements(visitQueue) = {}

\* the parts of C17 about the seed of the worklist and about the cells other
\* than the target
C17_OnceButTarget ==
  /\ (call = NoCall /\ pc = "while" /\ visitHistory = {} /\ visitQueue # << >>) =>
        visitQueue = <<traveler.target>>
  /\ (call = NoCall /\ pc = "while") => NoRepeat(visitQueue)
  /\ (HasPopped /\ popped[1].cell # traveler.target) =>
        /\ popped[1].cell \notin popped[1].earlier
        /\ popped[1].cell \notin Elements(visitQueue)
        /\ (popped[1].earlier \ {traveler.target}) \cap Elements(visitQueue) = {}

\* value_of_game of solve_williams for the game, over 2 * iters, in the cost
\* convention of the game
MidpointCost2(st) == 0 - value_of_game2(st.row_cum_payoff, st.col_cum_payoff)

\* C18: the value the default solver returns for a cost matrix after K
\* iterations is (max of the row cumulative payoffs + min of the column
\* cumulative payoffs) / 2 / K, in the cost convention of the matrix.
C18_ValueIsMidpoint ==
  ReturnedSolve =>
     2 * WilliamsIterations * ret.v =
        MidpointCost2(WilliamsRun(call.game, WilliamsIterations))

\* the offsets of the extended moves, keyed by the move symbol
ExtOffset ==
  [s \in DOMAIN Composing |->
     CASE s = "m" -> <<-2, -1>> [] s = "n" -> <<-2, 1>>
       [] s = "o" -> <<-1, -2>> [] s = "p" -> <<-1, 2>>
       [] s = "w" -> <<2, -1>>  [] s = "x" -> <<2, 1>>
       [] s = "y" -> <<1, -2>>  [] s = "z" -> <<1, 2>>]

\* the destination of the extended move s from the cell of the call is in
\* the grid and free
ExtDestFree(s) ==
  DestFree(call.i, ExtOffset[s][1], ExtOffset[s][2], call.m, call.n, call.env)

\* the cell of the call has an obstacle on its left, and the cells above it,
\* above-left of it and two above and one left of it are free
LeftBlockedExample ==
  /\ call.i[1] >= 2 /\ call.i[2] >= 1
  /\ call.env[<<call.i[1], call.i[2] - 1>>] = obstacleFlag
  /\ call.env[<<call.i[1] - 1, call.i[2]>>] # obstacleFlag
  /\ call.env[<<call.i[1] - 1, call.i[2] - 1>>] # obstacleFlag
  /\ call.env[<<call.i[1] - 2, call.i[2] - 1>>] # obstacleFlag

\* C19: getNeighbors returns an extended move exactly when its destination
\* is in the grid and free and the straight move and the diagonal move
\* composing it are valid, whatever the other base moves are: an obstacle on
\* the left cell does not exclude 'm'.
C19_ExtendedExactly ==
  ReturnedNeighbors =>
     /\ \A s \in DOMAIN Composing :
          s \in RetMoves <=> (ExtDestFree(s) /\ Composing[s] \subseteq RetMoves)
     /\ LeftBlockedExample => "m" \in RetMoves

\* the cost2go cell getOutcome reads for a move from cell i
OutcomeRead(move, i) ==
  <<i[1] + OutcomeOffset[move][1], i[2] + OutcomeOffset[move][2]>>

\* getOutcome was called for row r: the work of an outcome is below D_max,
\* the rows of the other moves hold D_max
OutcomeCalled(game_work, r) == game_work[r][1] # D_max

\* every row of the game of cell i that getOutcome filled is the row of a
\* move of B whose coordinate is the cell getOutcome read, a cell of the grid
CallsFollowNeighbors(i, B, g) ==
  /\ \A r \in DOMAIN g.game_work :
        OutcomeCalled(g.game_work, r) =>
           /\ OutcomeRead(traveler.actionspace[r], i) \in AllCells
           /\ \E x \in 1 .. Len(B) :
                 /\ B[x][3] = traveler.actionspace[r]
                 /\ <<B[x][1], B[x][2]>> = OutcomeRead(traveler.actionspace[r], i)
  /\ \A r \in DOMAIN g.game : \A c \in DOMAIN g.game[r] :
        g.game[r][c] # IndexError

\* C20: getGameForCell calls getOutcome only for the moves getNeighbors
\* returned for the cell, and the cost2go cell getOutcome reads at its fixed
\* offset for the move is the coordinate getNeighbors returned for it, a cell
\* of the grid: no index wraps around or passes the last row or column.
C20_OutcomeReadsNeighbor ==
  GameEvaluated =>
     CallsFollowNeighbors(popped[1].cell,
                          getNeighbors(popped[1].cell, full_m, full_n, occgrid),
                          f_work_game(popped[1].cell, popped[1].before))

\* a cell of the last row or column evaluated for a traveler with extended
\* moves, one of which getNeighbors returned
C20_Witness ==
  /\ GameEvaluated
  /\ popped[1].cell[1] = full_m - 1 \/ popped[1].cell[2] = full_n - 1
  /\ PoppedValid \cap DOMAIN Composing \cap Elements(traveler.actionspace) # {}

\* the cell the move recorded in action2go leads to from cell c
PolicyStep(c) == OutcomeRead(action2go[c], c)

\* following the recorded moves from cell c, having passed the cells `seen`,
\* leads to the target through free cells of the grid with a cost below
\* D_max, none of them passed twice
RECURSIVE PolicyReaches(_, _)
PolicyReaches(c, seen) ==
  IF c \notin AllCells \/ c \in seen THEN FALSE
  ELSE IF c = traveler.target THEN TRUE
  ELSE IF occgrid[c] = obstacleFlag \/ cost2go[c] >= D_max THEN FALSE
  ELSE IF action2go[c] \notin DOMAIN OutcomeOffset THEN FALSE
  ELSE PolicyReaches(PolicyStep(c), seen \cup {c})

\* getCost2go has returned its grids
Returned == call = NoCall /\ pc = "done"

\* C21: in the grids getCost2go returns, from every cell whose cost is below
\* D_max, applying again and again the move recorded in action2go stays in
\* the grid, enters no obstacle, passes only cells whose cost is below D_max,
\* passes no cell twice and reaches the target.
C21_PolicyReachesTarget ==
  Returned => \A c \in AllCells : cost2go[c] < D_max => PolicyReaches(c, {})

\* the part of C21 about one step: the move recorded in a cell of finite
\* cost other than the target leads to a free cell of the grid whose cost is
\* below D_max
C21_StepStaysFinite ==
  Returned =>
     \A c \in AllCells \ {traveler.target} :
        cost2go[c] < D_max =>
           /\ action2go[c] \in DOMAIN OutcomeOffset
           /\ PolicyStep(c) \in AllCells
           /\ occgrid[PolicyStep(c)] # obstacleFlag
           /\ cost2go[PolicyStep(c)] < D_max

====
